---------------------------- MODULE Spec2Model ----------------------------
(***************************************************************************)
(* A model of networksecurity/components/data_ingestion.py: the            *)
(* DataIngestion component, which reads a MongoDB collection into a        *)
(* DataFrame, writes it to the feature-store CSV, splits it into a         *)
(* training and a testing CSV and returns a DataIngestionArtifact.         *)
(*                                                                         *)
(* Granularity.  A document is a record with the MongoDB "_id" and one     *)
(* feature "x".  A DataFrame is its columns, its index labels and its      *)
(* rows.  A file is the sequence of its bytes, each a one-character        *)
(* string.  os.makedirs is a step of its own, before the to_csv that       *)
(* follows it.  to_csv is the steps of the library: open(path, "w"),       *)
(* which truncates; a write of the buffer at the handle's offset each      *)
(* time the text has filled it; the write of what is left, and the close.  *)
(* The three configured paths are distinct; the training and the testing   *)
(* file share one directory.                                               *)
(***************************************************************************)
EXTENDS Integers, Sequences, FiniteSets, TLC

(***************************************************************************)
(* Bounds of the model.                                                    *)
(***************************************************************************)
\* the largest number of documents the source collection holds
MaxDocs == 3
\* how many times the source collection is changed in one behaviour
MaxChanges == 1
\* the largest table the splitter is followed on, on its own
MaxRows == 25
\* the bytes the text buffer of an open file holds (8192 in CPython), scaled
\* to the tables of the model: a longer text takes more than one write
BufferSize == 4

(***************************************************************************)
(* Configuration (DataIngestionConfig) and the values of the source.       *)
(***************************************************************************)
feature_store_file_path == "Artifacts/data_ingestion/feature_store/phisingData.csv"
training_file_path == "Artifacts/data_ingestion/ingested/train.csv"
testing_file_path == "Artifacts/data_ingestion/ingested/test.csv"

Paths == {feature_store_file_path, training_file_path, testing_file_path}

\* os.path.dirname of a configured path
dirname(path) ==
    IF path = feature_store_file_path
    THEN "Artifacts/data_ingestion/feature_store"
    ELSE "Artifacts/data_ingestion/ingested"

Dirs == {dirname(p) : p \in Paths}

\* train_test_split_ratio, a decimal fraction in (0,1), as num/den: 0.2, 0.5
Ratios == {[num |-> 1, den |-> 5], [num |-> 1, den |-> 2]}

\* the values a document's feature holds
FeatureValues == {"na", "a"}

\* random_state of train_test_split
random_state == 42

(***************************************************************************)
(* Cells, DataFrames and files.                                            *)
(***************************************************************************)
\* np.nan, the missing-value marker
NaN == [nan |-> TRUE, v |-> ""]
Val(s) == [nan |-> FALSE, v |-> s]

Absent == [exists |-> FALSE, text |-> <<>>]
File(text) == [exists |-> TRUE, text |-> text]
\* what a file holds before the first run, when it is there
Stale == File(<<"o", "l", "d", "\n">>)

Range(s) == {s[i] : i \in 1..Len(s)}

RECURSIVE SeqsUpTo(_, _)
SeqsUpTo(S, n) ==
    IF n = 0 THEN {<<>>}
    ELSE LET shorter == SeqsUpTo(S, n - 1)
         IN  shorter \cup {Append(s, x) : s \in {t \in shorter : Len(t) = n - 1}, x \in S}

\* the i-th document of a collection whose features are xs
Document(i, x) == [_id |-> i, x |-> x]
Collections == {[i \in 1..Len(xs) |-> Document(i, xs[i])] : xs \in SeqsUpTo(FeatureValues, MaxDocs)}

\* pd.DataFrame(list(collection.find())): one row per document, the columns
\* the documents' keys, the index 0..N-1; no document, no column
DataFrame(docs) ==
    [columns |-> IF Len(docs) = 0 THEN <<>> ELSE <<"_id", "x">>,
     index   |-> [i \in 1..Len(docs) |-> i - 1],
     data    |-> [i \in 1..Len(docs) |-> <<Val(ToString(docs[i]._id)), Val(docs[i].x)>>]]

\* the positions of the columns of df that are not named name
KeptColumns(df, name) ==
    LET RECURSIVE keep(_)
        keep(i) == IF i > Len(df.columns) THEN <<>>
                   ELSE IF df.columns[i] = name THEN keep(i + 1)
                   ELSE <<i>> \o keep(i + 1)
    IN  keep(1)

\* mutant: drop without inplace=True, its result thrown away
drop_not_inplace(df, name) == df

\* df.drop(columns=[name])
drop(df, name) ==
    LET kept == KeptColumns(df, name)
    IN  [columns |-> [k \in 1..Len(kept) |-> df.columns[kept[k]]],
         index   |-> df.index,
         data    |-> [i \in 1..Len(df.data) |->
                        [k \in 1..Len(kept) |-> df.data[i][kept[k]]]]]

\* df.replace({"na": np.nan}): a cell that is exactly the string is replaced
replace_cell(c) == IF ~c.nan /\ c.v = "na" THEN NaN ELSE c

replace(df) ==
    [df EXCEPT !.data = [i \in 1..Len(df.data) |->
                           [k \in 1..Len(df.data[i]) |-> replace_cell(df.data[i][k])]]]

\* the body of export_collection_as_dataframe once find() has answered
export_collection_as_dataframe(docs) ==
    LET df == DataFrame(docs)
        dropped == IF "_id" \in Range(df.columns) THEN drop(df, "_id") ELSE df
    IN  replace(dropped)

\* the text of one cell: na_rep is the empty string
csv_field(c) == IF c.nan THEN "" ELSE c.v

\* csv.writer, QUOTE_MINIMAL: a row that is one empty field is written quoted
csv_line(fields) == IF fields = <<"">> THEN <<"\"\"">> ELSE fields

Digits == <<"0", "1", "2", "3", "4", "5", "6", "7", "8", "9">>

\* the characters of str(n)
RECURSIVE DecimalChars(_)
DecimalChars(n) ==
    IF n < 10 THEN <<Digits[n + 1]>>
    ELSE Append(DecimalChars(n \div 10), Digits[(n % 10) + 1])

\* the characters of a string that stands in a table or in its header
Chars(s) ==
    CASE s = "" -> <<>>
      [] s = "\"\"" -> <<"\"", "\"">>
      [] s = "x" -> <<"x">>
      [] s = "a" -> <<"a">>
      [] s = "na" -> <<"n", "a">>
      [] s = "_id" -> <<"_", "i", "d">>
      [] OTHER -> DecimalChars(CHOOSE n \in 0..(MaxDocs + MaxRows) : ToString(n) = s)

\* the texts one after the other
RECURSIVE Concat(_)
Concat(texts) ==
    IF Len(texts) = 0 THEN <<>>
    ELSE IF Len(texts) = 1 THEN texts[1]
    ELSE LET half == Len(texts) \div 2
         IN  Concat(SubSeq(texts, 1, half)) \o Concat(SubSeq(texts, half + 1, Len(texts)))

\* csv.writer.writerow: the fields with the delimiter between them, then the
\* line terminator
csv_row(fields) ==
    LET line == csv_line(fields)
    IN  Concat([k \in 1..Len(line) |->
                  IF k = 1 THEN Chars(line[k]) ELSE <<",">> \o Chars(line[k])]) \o <<"\n">>

\* mutant: to_csv with index=True, the index label before each row
to_csv_with_index(df) ==
    csv_row(<<"">> \o df.columns) \o
    Concat([i \in 1..Len(df.data) |->
              csv_row(<<ToString(df.index[i])>> \o
                      [k \in 1..Len(df.data[i]) |-> csv_field(df.data[i][k])])])

\* df.to_csv(path, index=False, header=True): the text of the header, then of
\* the rows
to_csv(df) ==
    csv_row(df.columns) \o
    Concat([i \in 1..Len(df.data) |->
              csv_row([k \in 1..Len(df.data[i]) |-> csv_field(df.data[i][k])])])

(***************************************************************************)
(* train_test_split(dataframe, test_size=ratio, random_state=42).          *)
(***************************************************************************)
\* numpy's RandomState(seed): the low 16 bits of the first outputs of MT19937
\* after init_genrand(seed), for the seed the splitter passes
RandomState ==
    [seed \in {42} |->
    <<56422, 15795, 860, 38158, 62570, 54343, 44732, 11284, 54886, 6265,
      16850, 62678, 37194, 21962, 47191, 60788, 44131, 60263, 16023, 41090,
      1685, 64820, 769, 59735, 62955, 64925, 56101, 2433, 5311, 37819,
      39188, 17568, 53707, 19769, 28693, 6396, 62187, 27480, 65072, 41434,
      25658, 18942, 57001, 18431, 64987, 2747, 58319, 59150>>]

\* the stream the splitter draws from
MT19937 == RandomState[random_state]

\* the smallest 2^j above max: random_interval's mask, plus one
RECURSIVE MaskPlusOne(_, _)
MaskPlusOne(max, m) == IF m > max THEN m ELSE MaskPlusOne(max, 2 * m)

\* random_interval(max) reading the stream from its k-th output: rejection
\* sampling under the mask; <<the value drawn, the next position>>
RECURSIVE random_interval(_, _)
random_interval(max, k) ==
    IF max = 0 THEN <<0, k>>
    ELSE LET v == MT19937[k] % MaskPlusOne(max, 1)
         IN  IF v <= max THEN <<v, k + 1>> ELSE random_interval(max, k + 1)

Swap(arr, i, j) == [arr EXCEPT ![i] = arr[j], ![j] = arr[i]]

\* one turn of the loop of shuffle: arr[i] is swapped with arr[j], j drawn in
\* 0..i from the stream at position k
shuffle_step(s, i) ==
    LET d == random_interval(i, s.k)
    IN  [arr |-> Swap(s.arr, i + 1, d[1] + 1), k |-> d[2]]

\* RandomState.shuffle: the turns for i = hi down to lo, one after the other,
\* the first half carried out before the second is begun
RECURSIVE shuffle(_, _, _)
shuffle(s, hi, lo) ==
    IF hi < lo THEN s
    ELSE IF hi = lo THEN shuffle_step(s, hi)
    ELSE LET mid == (hi + lo + 1) \div 2
         IN  CHOOSE t \in {shuffle(u, mid - 1, lo) : u \in {shuffle(s, hi, mid)}} : TRUE

\* RandomState(random_state).permutation(n): arange(n) shuffled for
\* i = n-1 down to 1
permutation(n) == shuffle([arr |-> [i \in 1..n |-> i - 1], k |-> 1], n - 1, 1).arr

\* mutant: random_state left out, any permutation may be drawn
rng_permutations_unseeded(n) ==
    {p \in [1..n -> 0..(n - 1)] : \A i, j \in 1..n : p[i] = p[j] => i = j}

\* the permutations a split of n rows may draw: the seed fixes one
rng_permutations(n) == {permutation(n)}

(***************************************************************************)
(* The ratio is a Python float, an IEEE 754 double, and test_size * n is   *)
(* a double product.  A double is its significand, an integer of 53 bits,  *)
(* and the exponent e of its last bit: the value is significand * 2^(-e).  *)
(* An integer too wide for one machine word is the sequence of its limbs,  *)
(* its digits in base 2^13, the most significant first: a significand is   *)
(* five limbs, the first of them 1.                                        *)
(***************************************************************************)
Significand == 53
LimbBits == 13
Base == 2^LimbBits

\* the i-th limb, 0 before the first
Limb(limbs, i) == IF i >= 1 THEN limbs[i] ELSE 0

\* the bit of weight 2^j
Bit(limbs, j) == (Limb(limbs, Len(limbs) - (j \div LimbBits)) \div 2^(j % LimbBits)) % 2

\* whether a bit of weight below 2^d is set
NonZeroBelow(limbs, d) ==
    LET q == d \div LimbBits
    IN  \/ \E i \in (Len(limbs) - q + 1)..Len(limbs) : limbs[i] # 0
        \/ Limb(limbs, Len(limbs) - q) % 2^(d % LimbBits) # 0

\* the number of bits of a limb that is not 0
BitLength(v) == CHOOSE b \in 1..LimbBits : 2^(b - 1) <= v /\ v < 2^b

\* the number of bits of an integer whose first limb is not 0
Bits(limbs) == LimbBits * (Len(limbs) - 1) + BitLength(limbs[1])

\* the integer without its last d bits
ShiftRight(limbs, d) ==
    LET q == d \div LimbBits
        t == d % LimbBits
        len == (Bits(limbs) - d + LimbBits - 1) \div LimbBits
        at(i) == Len(limbs) - q - (len - i)
    IN  [i \in 1..len |-> (Limb(limbs, at(i)) \div 2^t) +
                          (Limb(limbs, at(i) - 1) % 2^t) * 2^(LimbBits - t)]

\* the integer plus 1, in as many limbs: the first limb takes the last carry
PlusOne(limbs) ==
    LET k == CHOOSE i \in 1..Len(limbs) :
                 /\ i = 1 \/ limbs[i] # Base - 1
                 /\ \A j \in (i + 1)..Len(limbs) : limbs[j] = Base - 1
    IN  [i \in 1..Len(limbs) |-> IF i < k THEN limbs[i] ELSE IF i = k THEN limbs[i] + 1 ELSE 0]

\* the double nearest to limbs * 2^(-e), ties to even: the bits past the
\* significand are dropped, the first of them the guard bit
RoundHalfEven(limbs, e) ==
    LET d == Bits(limbs) - Significand
        kept == ShiftRight(limbs, d)
        guard == IF d >= 1 THEN Bit(limbs, d - 1) ELSE 0
        sticky == d >= 1 /\ NonZeroBelow(limbs, d - 1)
        up == PlusOne(kept)
    IN  IF guard = 1 /\ (sticky \/ kept[Len(kept)] % 2 = 1)
        THEN IF up[1] = 2
             THEN [limbs |-> [i \in 1..Len(kept) |-> IF i = 1 THEN 1 ELSE 0], e |-> e - d - 1]
             ELSE [limbs |-> up, e |-> e - d]
        ELSE [limbs |-> kept, e |-> e - d]

\* rem/den in base 2^13, places limbs after those already there:
\* <<the limbs, the remainder>>
RECURSIVE LongDivision(_, _, _, _)
LongDivision(rem, den, limbs, places) ==
    IF places = 0 THEN <<limbs, rem>>
    ELSE LongDivision((rem * Base) % den, den, Append(limbs, (rem * Base) \div den),
                      places - 1)

\* float(num/den): the double nearest to the fraction, 0 < num < den < 2^18.
\* The quotient is taken one limb past the significand, a last limb tells
\* whether anything is left, and the whole is rounded
float(r) ==
    LET z == CHOOSE k \in 1..18 : r.num * 2^k >= r.den /\ r.num * 2^(k - 1) < r.den
        a == r.num * 2^z
        x == LongDivision(a % r.den, r.den, <<a \div r.den>>, 5)
        limbs == Append(x[1], IF x[2] # 0 THEN 1 ELSE 0)
    IN  RoundHalfEven(limbs, z + LimbBits * (Len(limbs) - 1))

\* the limbs of a natural number, no leading zero
RECURSIVE NatLimbs(_)
NatLimbs(k) == IF k = 0 THEN <<>> ELSE Append(NatLimbs(k \div Base), k % Base)

\* the value of a few limbs
RECURSIVE LimbsValue(_)
LimbsValue(limbs) ==
    IF Len(limbs) = 0 THEN 0
    ELSE Base * LimbsValue(SubSeq(limbs, 1, Len(limbs) - 1)) + limbs[Len(limbs)]

\* limbs * n + carry, exact, from the last limb up, n < 2^17
RECURSIVE LimbsTimes(_, _, _)
LimbsTimes(limbs, n, carry) ==
    IF Len(limbs) = 0 THEN NatLimbs(carry)
    ELSE LET t == limbs[Len(limbs)] * n + carry
         IN  Append(LimbsTimes(SubSeq(limbs, 1, Len(limbs) - 1), n, t \div Base), t % Base)

\* x * n in double arithmetic, n >= 1: the exact product, rounded
float_times(x, n) == RoundHalfEven(LimbsTimes(x.limbs, n, 0), x.e)

\* math.ceil of a positive double below 2^31
ceil(x) ==
    IF x.e >= Significand THEN 1
    ELSE LimbsValue(ShiftRight(x.limbs, x.e)) +
         (IF NonZeroBelow(x.limbs, x.e) THEN 1 ELSE 0)

\* _validate_shuffle_split: n_test = ceil(test_size * n), n_train = n - n_test
n_test(n, r) == IF n = 0 THEN 0 ELSE ceil(float_times(float(r), n))
n_train(n, r) == n - n_test(n, r)

\* the split raises ValueError when the training set would be empty
SplitRaises(n, r) == n_train(n, r) <= 0

\* the rows of df at the positions pos (0-based), in that order: df.iloc[pos]
iloc(df, pos) ==
    [columns |-> df.columns,
     index   |-> [i \in 1..Len(pos) |-> df.index[pos[i] + 1]],
     data    |-> [i \in 1..Len(pos) |-> df.data[pos[i] + 1]]]

\* mutant: the training slice starts one position early
train_test_split_off_by_one(df, r, perm) ==
    LET n == Len(df.data)
        nt == n_test(n, r)
        ntr == n - nt
    IN  [train |-> iloc(df, SubSeq(perm, nt, nt + ntr)),
         test  |-> iloc(df, SubSeq(perm, 1, nt))]

\* ShuffleSplit: test is the first n_test of the permutation, train the next
\* n_train = n - n_test
train_test_split(df, r, perm) ==
    LET n == Len(df.data)
        nt == n_test(n, r)
        ntr == n - nt
    IN  [train |-> iloc(df, SubSeq(perm, nt + 1, nt + ntr)),
         test  |-> iloc(df, SubSeq(perm, 1, nt))]

(***************************************************************************)
(* The state.  An invocation of initiate_data_ingestion is a run; Runs are *)
(* the two calls the model follows.                                        *)
(***************************************************************************)
Runs == {1, 2}

VARIABLES
    collection,   \* the documents of the source collection, in find() order
    changes,      \* how many times the source collection was changed
    ratio,        \* data_ingestion_config.train_test_split_ratio
    files,        \* the file at each configured path
    dirs,         \* the directories that exist
    pc,           \* where each run stands
    dataframe,    \* initiate_data_ingestion's local dataframe
    train_set,    \* split_data_as_train_test's local train_set
    test_set,     \* split_data_as_train_test's local test_set
    artifact,     \* what the run returned, if it returned
    raised,       \* the exception the run raised, outermost first, if it raised
    log,          \* history: the calls and returns of the run, in order
    failedAt,     \* history: where the run stood when it raised
    readDocs,     \* history: the documents find() gave the run
    startFiles,   \* history: files when the run started
    offset,       \* the position of the run's open file handle
    written,      \* the bytes of its text the run has written to the open file
    openers,      \* the runs holding each path open for writing
    lastWriter,   \* history: the run that last completed a write of each path
    overlapped    \* history: whether two runs ever held the path open together

vars == <<collection, changes, ratio, files, dirs, pc, dataframe, train_set,
          test_set, artifact, raised, log, failedAt, readDocs, startFiles,
          offset, written, openers, lastWriter, overlapped>>

env == <<collection, changes, ratio>>
hist == <<readDocs, startFiles>>
conc == <<offset, written, openers, lastWriter, overlapped>>

NoFrame == [columns |-> <<>>, index |-> <<>>, data |-> <<>>]
NoArtifact == [trained_file_path |-> "", test_file_path |-> ""]
NoFiles == [p \in Paths |-> Absent]

\* mutant: the two paths passed in each other's place
DataIngestionArtifact_swapped(trained, test) ==
    [trained_file_path |-> test, test_file_path |-> trained]

\* DataIngestionArtifact(trained_file_path=..., test_file_path=...)
DataIngestionArtifact(trained, test) ==
    [trained_file_path |-> trained, test_file_path |-> test]

\* raise NetworkSecurityException(e, sys) from e, in the step and again in
\* initiate_data_ingestion: the chain of __cause__, outermost first
Wrapped(cause) == <<"NetworkSecurityException", "NetworkSecurityException", cause>>

Terminal == {"completed", "failed"}

\* the file states a run can find: what an earlier pipeline run left, the
\* feature store or not, the two split files or neither
InitialFiles ==
    {f \in [Paths -> {Absent, Stale}] :
        f[training_file_path].exists = f[testing_file_path].exists}

\* no call of initiate_data_ingestion was made yet
NotStarted ==
    /\ changes = 0
    /\ pc = [r \in Runs |-> "not_started"]
    /\ dataframe = [r \in Runs |-> NoFrame]
    /\ train_set = [r \in Runs |-> NoFrame]
    /\ test_set = [r \in Runs |-> NoFrame]
    /\ artifact = [r \in Runs |-> NoArtifact]
    /\ raised = [r \in Runs |-> <<>>]
    /\ log = [r \in Runs |-> <<>>]
    /\ failedAt = [r \in Runs |-> ""]
    /\ readDocs = [r \in Runs |-> <<>>]
    /\ startFiles = [r \in Runs |-> NoFiles]
    /\ offset = [r \in Runs |-> 0]
    /\ written = [r \in Runs |-> 0]
    /\ openers = [p \in Paths |-> {}]
    /\ lastWriter = [p \in Paths |-> 0]
    /\ overlapped = [p \in Paths |-> FALSE]

Init ==
    /\ collection \in Collections
    /\ ratio \in Ratios
    /\ files \in InitialFiles
    /\ dirs = {dirname(p) : p \in {q \in Paths : files[q].exists}}
    /\ NotStarted

(***************************************************************************)
(* The source collection changes between two reads: insert_one, delete_one *)
(***************************************************************************)
InsertOne ==
    /\ changes < MaxChanges
    /\ Len(collection) < MaxDocs
    /\ \E v \in FeatureValues :
          collection' = Append(collection, Document(Len(collection) + 1, v))
    /\ changes' = changes + 1
    /\ UNCHANGED <<ratio, files, dirs, pc, dataframe, train_set, test_set, artifact,
                   raised, log, failedAt, hist, conc>>

DeleteOne ==
    /\ changes < MaxChanges
    /\ Len(collection) > 0
    /\ collection' = SubSeq(collection, 1, Len(collection) - 1)
    /\ changes' = changes + 1
    /\ UNCHANGED <<ratio, files, dirs, pc, dataframe, train_set, test_set, artifact,
                   raised, log, failedAt, hist, conc>>

(***************************************************************************)
(* Steps shared by the three writes.                                       *)
(***************************************************************************)
\* mutant: the exception is logged and swallowed, the run goes on to its end
Raise_swallowed(r, cause) ==
    /\ raised' = raised
    /\ failedAt' = [failedAt EXCEPT ![r] = pc[r]]
    /\ pc' = [pc EXCEPT ![r] = "completed"]
    /\ log' = [log EXCEPT ![r] = Append(@, "raise")]

\* the run raises at its current place
Raise(r, cause) ==
    /\ raised' = [raised EXCEPT ![r] = Wrapped(cause)]
    /\ failedAt' = [failedAt EXCEPT ![r] = pc[r]]
    /\ pc' = [pc EXCEPT ![r] = "failed"]
    /\ log' = [log EXCEPT ![r] = Append(@, "raise")]

\* mutant: open(path, "a"), the handle stands at the end of what is there
open_a(f) == [file |-> IF f.exists THEN f ELSE File(<<>>), pos |-> Len(f.text)]

\* mutant: open(path, "r+") on a file that is there, nothing truncated
open_rplus(f) == [file |-> IF f.exists THEN f ELSE File(<<>>), pos |-> 0]

\* open(path, "w"): the file is created or truncated, the handle stands at 0
open_w(f) == [file |-> File(<<>>), pos |-> 0]

\* the zero byte
NUL == "\\0"

\* write(fd, text) at the handle's position, byte over byte: the bytes the
\* file holds before the position and past the text stay; a position past
\* the end of the file (it was truncated under the handle) leaves a hole of
\* zero bytes
WrittenAt(f, pos, text) ==
    IF Len(text) = 0 THEN f
    ELSE IF pos > Len(f.text)
    THEN File(f.text \o [i \in 1..(pos - Len(f.text)) |-> NUL] \o text)
    ELSE File(SubSeq(f.text, 1, pos) \o text \o
              SubSeq(f.text, pos + Len(text) + 1, Len(f.text)))

\* the bytes of the next write() of the text still to write: csv.writer hands
\* the text over line by line and the buffer is flushed before a line that
\* would overfill it, so a write() carries as many whole lines as the buffer
\* holds, or one line that is longer than the buffer
ChunkLen(rest) ==
    LET ends == {n \in 1..Len(rest) : rest[n] = "\n"}
        fit == {n \in ends : n <= BufferSize}
    IN  IF fit # {} THEN CHOOSE n \in fit : \A m \in fit : m <= n
        ELSE IF ends # {} THEN CHOOSE n \in ends : \A m \in ends : n <= m
        ELSE Len(rest)

\* the part of the run's text that is not written yet
Rest(r, df) == LET text == to_csv(df) IN SubSeq(text, written[r] + 1, Len(text))

\* os.makedirs(dir_path, exist_ok=True): the directory of the path is there
\* when it returns; no file is touched
MakedirsStep(r, at, path, next) ==
    /\ pc[r] = at
    /\ dirs' = dirs \cup {dirname(path)}
    /\ pc' = [pc EXCEPT ![r] = next]
    /\ UNCHANGED <<env, files, dataframe, train_set, test_set, artifact, raised,
                   log, failedAt, hist, conc>>

\* os.makedirs raises OSError: the directory is not made
MakedirsFailStep(r, at) ==
    /\ pc[r] = at
    /\ Raise(r, "OSError")
    /\ UNCHANGED <<env, files, dirs, dataframe, train_set, test_set, artifact,
                   hist, conc>>

\* to_csv opens the path, in a directory that is there
OpenStep(r, at, path, next) ==
    /\ pc[r] = at
    /\ dirname(path) \in dirs
    /\ files' = [files EXCEPT ![path] = open_w(@).file]
    /\ offset' = [offset EXCEPT ![r] = open_w(files[path]).pos]
    /\ written' = [written EXCEPT ![r] = 0]
    /\ openers' = [openers EXCEPT ![path] = @ \cup {r}]
    /\ overlapped' = [overlapped EXCEPT ![path] = @ \/ openers[path] # {}]
    /\ pc' = [pc EXCEPT ![r] = next]
    /\ UNCHANGED <<env, dirs, dataframe, train_set, test_set, artifact, raised,
                   log, failedAt, hist, lastWriter>>

\* mutant: the failing step removes what the run wrote before it
OpenFailStep_cleanup(r, at, path) ==
    /\ pc[r] = at
    /\ files' = [p \in Paths |-> IF p = path THEN files[p] ELSE Absent]
    /\ Raise(r, "OSError")
    /\ UNCHANGED <<env, dirs, dataframe, train_set, test_set, artifact, hist, conc>>

\* the open raises OSError: no file is touched
OpenFailStep(r, at, path) ==
    /\ pc[r] = at
    /\ Raise(r, "OSError")
    /\ UNCHANGED <<env, files, dirs, dataframe, train_set, test_set, artifact,
                   hist, conc>>

\* to_csv has filled the buffer and more text follows: the buffer is
\* written to the file, which stays open
WriteChunkStep(r, at, path, df) ==
    /\ pc[r] = at
    /\ LET rest == Rest(r, df)
           n == ChunkLen(rest)
       IN  /\ n < Len(rest)
           /\ files' = [files EXCEPT ![path] = WrittenAt(@, offset[r], SubSeq(rest, 1, n))]
           /\ offset' = [offset EXCEPT ![r] = @ + n]
           /\ written' = [written EXCEPT ![r] = @ + n]
    /\ UNCHANGED <<env, dirs, pc, dataframe, train_set, test_set, artifact, raised,
                   log, failedAt, hist, openers, lastWriter, overlapped>>

\* to_csv has the end of the text in the buffer: it writes it and closes the
\* file
WriteStep(r, at, path, df, next, events) ==
    /\ pc[r] = at
    /\ LET rest == Rest(r, df)
       IN  /\ ChunkLen(rest) = Len(rest)
           /\ files' = [files EXCEPT ![path] = WrittenAt(@, offset[r], rest)]
           /\ offset' = [offset EXCEPT ![r] = @ + Len(rest)]
           /\ written' = [written EXCEPT ![r] = @ + Len(rest)]
    /\ openers' = [openers EXCEPT ![path] = @ \ {r}]
    /\ lastWriter' = [lastWriter EXCEPT ![path] = r]
    /\ pc' = [pc EXCEPT ![r] = next]
    /\ log' = [log EXCEPT ![r] = @ \o events]
    /\ UNCHANGED <<env, dirs, dataframe, train_set, test_set, artifact, raised,
                   failedAt, hist, overlapped>>

\* a write raises OSError part-way: the bytes written before it, a proper
\* prefix of the text that may end inside a line, are in the file
WriteFailStep(r, at, path, df) ==
    /\ pc[r] = at
    /\ LET rest == Rest(r, df)
       IN  \E n \in 0..(ChunkLen(rest) - 1) :
              files' = [files EXCEPT ![path] = WrittenAt(@, offset[r], SubSeq(rest, 1, n))]
    /\ openers' = [openers EXCEPT ![path] = @ \ {r}]
    /\ Raise(r, "OSError")
    /\ UNCHANGED <<env, dirs, dataframe, train_set, test_set, artifact, hist,
                   offset, written, lastWriter, overlapped>>

(***************************************************************************)
(* initiate_data_ingestion, step by step.                                  *)
(***************************************************************************)
\* the call: the reader is called first
Start(r) ==
    /\ pc[r] = "not_started"
    /\ pc' = [pc EXCEPT ![r] = "reader"]
    /\ log' = [log EXCEPT ![r] = <<"reader.call">>]
    /\ UNCHANGED <<env, files, dirs, dataframe, train_set, test_set, artifact,
                   raised, failedAt, readDocs, conc>>

\* export_collection_as_dataframe returns the table of the collection
ReadOk(r) ==
    /\ pc[r] = "reader"
    /\ dataframe' = [dataframe EXCEPT ![r] = export_collection_as_dataframe(collection)]
    /\ readDocs' = [readDocs EXCEPT ![r] = collection]
    /\ pc' = [pc EXCEPT ![r] = "writer.makedirs"]
    /\ log' = [log EXCEPT ![r] = @ \o <<"reader.return", "writer.call">>]
    /\ UNCHANGED <<env, files, dirs, train_set, test_set, artifact, raised,
                   failedAt, startFiles, conc>>

\* mutant: the feature-store file is opened before the collection is read
ReadFail_after_open(r) ==
    /\ pc[r] = "reader"
    /\ files' = [files EXCEPT ![feature_store_file_path] = open_w(@).file]
    /\ Raise(r, "PyMongoError")
    /\ UNCHANGED <<env, dirs, dataframe, train_set, test_set, artifact, hist, conc>>

\* the client, the find or the conversion raises: wrapped and raised again
ReadFail(r) ==
    /\ pc[r] = "reader"
    /\ Raise(r, "PyMongoError")
    /\ UNCHANGED <<env, files, dirs, dataframe, train_set, test_set, artifact,
                   hist, conc>>

\* export_data_into_feature_store: os.makedirs of the file's directory
FsMakedirs(r) ==
    /\ MakedirsStep(r, "writer.makedirs", feature_store_file_path, "writer.open")

FsMakedirsFail(r) ==
    /\ MakedirsFailStep(r, "writer.makedirs")

\* dataframe.to_csv: the open
FsOpen(r) ==
    /\ OpenStep(r, "writer.open", feature_store_file_path, "writer.write")

FsOpenFail(r) ==
    /\ OpenFailStep(r, "writer.open", feature_store_file_path)

FsWriteChunk(r) ==
    /\ WriteChunkStep(r, "writer.write", feature_store_file_path, dataframe[r])

\* the writer returns the dataframe it was given; the splitter is called
FsWrite(r) ==
    /\ WriteStep(r, "writer.write", feature_store_file_path, dataframe[r],
                 "splitter.split", <<"writer.return", "splitter.call">>)

FsWriteFail(r) ==
    /\ WriteFailStep(r, "writer.write", feature_store_file_path, dataframe[r])

\* split_data_as_train_test: train_test_split gives the two sets
Split(r) ==
    /\ pc[r] = "splitter.split"
    /\ ~SplitRaises(Len(dataframe[r].data), ratio)
    /\ \E perm \in rng_permutations(Len(dataframe[r].data)) :
          LET split == train_test_split(dataframe[r], ratio, perm)
          IN  /\ train_set' = [train_set EXCEPT ![r] = split.train]
              /\ test_set' = [test_set EXCEPT ![r] = split.test]
    /\ pc' = [pc EXCEPT ![r] = "splitter.makedirs"]
    /\ UNCHANGED <<env, files, dirs, dataframe, artifact, raised, log, failedAt,
                   hist, conc>>

\* train_test_split raises ValueError: the training set would be empty
SplitRaise(r) ==
    /\ pc[r] = "splitter.split"
    /\ SplitRaises(Len(dataframe[r].data), ratio)
    /\ Raise(r, "ValueError")
    /\ UNCHANGED <<env, files, dirs, dataframe, train_set, test_set, artifact,
                   hist, conc>>

\* os.makedirs of the training file's directory
TrainMakedirs(r) ==
    /\ MakedirsStep(r, "splitter.makedirs", training_file_path, "splitter.train_open")

TrainMakedirsFail(r) ==
    /\ MakedirsFailStep(r, "splitter.makedirs")

\* train_set.to_csv: the open
TrainOpen(r) ==
    /\ OpenStep(r, "splitter.train_open", training_file_path, "splitter.train_write")

TrainOpenFail(r) ==
    /\ OpenFailStep(r, "splitter.train_open", training_file_path)

TrainWriteChunk(r) ==
    /\ WriteChunkStep(r, "splitter.train_write", training_file_path, train_set[r])

TrainWrite(r) ==
    /\ WriteStep(r, "splitter.train_write", training_file_path, train_set[r],
                 "splitter.test_open", <<>>)

TrainWriteFail(r) ==
    /\ WriteFailStep(r, "splitter.train_write", training_file_path, train_set[r])

\* test_set.to_csv, in the directory made for the training file: the open
TestOpen(r) ==
    /\ OpenStep(r, "splitter.test_open", testing_file_path, "splitter.test_write")

TestOpenFail(r) ==
    /\ OpenFailStep(r, "splitter.test_open", testing_file_path)

TestWriteChunk(r) ==
    /\ WriteChunkStep(r, "splitter.test_write", testing_file_path, test_set[r])

TestWrite(r) ==
    /\ WriteStep(r, "splitter.test_write", testing_file_path, test_set[r],
                 "assemble", <<"splitter.return">>)

TestWriteFail(r) ==
    /\ WriteFailStep(r, "splitter.test_write", testing_file_path, test_set[r])

\* the artifact is built from the configured paths and returned
Return(r) ==
    /\ pc[r] = "assemble"
    /\ artifact' = [artifact EXCEPT ![r] =
                       DataIngestionArtifact(training_file_path, testing_file_path)]
    /\ pc' = [pc EXCEPT ![r] = "completed"]
    /\ log' = [log EXCEPT ![r] = Append(@, "return")]
    /\ UNCHANGED <<env, files, dirs, dataframe, train_set, test_set, raised,
                   failedAt, hist, conc>>

(***************************************************************************)
(* Spec: the runs in sequence (the module is synchronous: a call returns   *)
(* or raises before the caller makes the next), any step may fail, the     *)
(* source may change between two runs.                                     *)
(***************************************************************************)
\* the caller's next call comes after the previous one ended
Call(r) ==
    /\ \A q \in Runs : q < r => pc[q] \in Terminal
    /\ Start(r)
    /\ startFiles' = [startFiles EXCEPT ![r] = files]

\* a call has ended and the next is not made yet
BetweenCalls ==
    /\ \A r \in Runs : pc[r] \in Terminal \cup {"not_started"}
    /\ \E r \in Runs : pc[r] \in Terminal
    /\ \E r \in Runs : pc[r] = "not_started"

Next ==
    \/ BetweenCalls /\ InsertOne
    \/ BetweenCalls /\ DeleteOne
    \/ \E r \in Runs :
          \/ Call(r)
          \/ ReadOk(r)
          \/ ReadFail(r)
          \/ FsMakedirs(r)
          \/ FsMakedirsFail(r)
          \/ FsOpen(r)
          \/ FsOpenFail(r)
          \/ FsWriteChunk(r)
          \/ FsWrite(r)
          \/ FsWriteFail(r)
          \/ Split(r)
          \/ SplitRaise(r)
          \/ TrainMakedirs(r)
          \/ TrainMakedirsFail(r)
          \/ TrainOpen(r)
          \/ TrainOpenFail(r)
          \/ TrainWriteChunk(r)
          \/ TrainWrite(r)
          \/ TrainWriteFail(r)
          \/ TestOpen(r)
          \/ TestOpenFail(r)
          \/ TestWriteChunk(r)
          \/ TestWrite(r)
          \/ TestWriteFail(r)
          \/ Return(r)

Spec == Init /\ [][Next]_vars

(***************************************************************************)
(* SpecConc: two runs at once on the same paths, no step failing for the   *)
(* environment's sake; the source may change between the two reads.        *)
(***************************************************************************)
\* a run has read the collection and a run has yet to read it
BetweenReads ==
    /\ \E r \in Runs : pc[r] \notin {"not_started", "reader"}
    /\ \E r \in Runs : pc[r] \in {"not_started", "reader"}

NextConc ==
    \/ BetweenReads /\ InsertOne
    \/ BetweenReads /\ DeleteOne
    \/ \E r \in Runs :
          \/ Start(r) /\ UNCHANGED startFiles
          \/ ReadOk(r)
          \/ FsMakedirs(r)
          \/ FsOpen(r)
          \/ FsWriteChunk(r)
          \/ FsWrite(r)
          \/ Split(r)
          \/ SplitRaise(r)
          \/ TrainMakedirs(r)
          \/ TrainOpen(r)
          \/ TrainWriteChunk(r)
          \/ TrainWrite(r)
          \/ TestOpen(r)
          \/ TestWriteChunk(r)
          \/ TestWrite(r)
          \/ Return(r)

\* the runs start from an empty artifact directory, with the ratio 0.2
InitConc ==
    /\ Init
    /\ files = NoFiles
    /\ dirs = {}
    /\ ratio = [num |-> 1, den |-> 5]

SpecConc == InitConc /\ [][NextConc]_vars

(***************************************************************************)
(* SpecSplit: one run over a larger table, no step failing for the         *)
(* environment's sake: the splitter on every size up to MaxRows, with the  *)
(* ratios whose product with the size is not exact in double arithmetic.   *)
(***************************************************************************)
\* 0.2, 0.5 and 0.75, 0.28, 0.56, 0.9
SplitRatios ==
    Ratios \cup {[num |-> 3, den |-> 4], [num |-> 7, den |-> 25], [num |-> 14, den |-> 25],
                 [num |-> 9, den |-> 10]}

\* a collection of n documents, the k-th holding "na" (none when k = 0)
Table(n, k) == [i \in 1..n |-> Document(i, IF i = k THEN "na" ELSE "a")]

InitSplit ==
    /\ \E n \in 0..MaxRows : \E k \in 0..n : collection = Table(n, k)
    /\ ratio \in SplitRatios
    /\ files = NoFiles
    /\ dirs = {}
    /\ NotStarted

NextSplit ==
    \/ Call(1)
    \/ ReadOk(1)
    \/ FsMakedirs(1)
    \/ FsOpen(1)
    \/ FsWriteChunk(1)
    \/ FsWrite(1)
    \/ Split(1)
    \/ SplitRaise(1)
    \/ TrainMakedirs(1)
    \/ TrainOpen(1)
    \/ TrainWriteChunk(1)
    \/ TrainWrite(1)
    \/ TestOpen(1)
    \/ TestWriteChunk(1)
    \/ TestWrite(1)
    \/ Return(1)

SpecSplit == InitSplit /\ [][NextSplit]_vars

(***************************************************************************)
(* What the claims say, and the states that show their cases.              *)
(***************************************************************************)
IsPrefix(s, t) == Len(s) <= Len(t) /\ SubSeq(t, 1, Len(s)) = s

\* the calls and returns of a run in which every step succeeds
Canonical ==
    <<"reader.call", "reader.return", "writer.call", "writer.return",
      "splitter.call", "splitter.return", "return">>

InWriter == {"writer.makedirs", "writer.open", "writer.write"}
InSplitter == {"splitter.split", "splitter.makedirs", "splitter.train_open",
               "splitter.train_write", "splitter.test_open", "splitter.test_write"}

\* no later run has started: the files are as run r left them
Latest(r) == \A q \in Runs : q > r => pc[q] = "not_started"

\* C1: the reader, the writer and the splitter run in that order, each called
\* only after the one before it returned; a result is returned only after all
\* three returned, and it names the configured training and testing paths.
C1_StrictOrder ==
    \A r \in Runs :
        /\ \/ IsPrefix(log[r], Canonical)
           \/ /\ Len(log[r]) >= 2
              /\ log[r][Len(log[r])] = "raise"
              /\ IsPrefix(SubSeq(log[r], 1, Len(log[r]) - 1), Canonical)
              /\ log[r][Len(log[r]) - 1] \in {"reader.call", "writer.call", "splitter.call"}
        /\ pc[r] = "reader" => log[r] = SubSeq(Canonical, 1, 1)
        /\ pc[r] \in InWriter => log[r] = SubSeq(Canonical, 1, 3)
        /\ pc[r] \in InSplitter => log[r] = SubSeq(Canonical, 1, 5)
        /\ pc[r] = "assemble" => log[r] = SubSeq(Canonical, 1, 6)
        /\ pc[r] = "completed" <=> log[r] = Canonical
        /\ artifact[r] # NoArtifact => pc[r] = "completed"
        /\ pc[r] = "completed" =>
              /\ artifact[r].trained_file_path = training_file_path
              /\ artifact[r].test_file_path = testing_file_path

C1_Witness ==
    \E r \in Runs : pc[r] = "completed" /\ artifact[r] # NoArtifact

\* C2: when the reader fails, the feature-store, the training and the testing
\* file are as they were when the run started.
C2_ReaderFailureTouchesNoFile ==
    \A r \in Runs :
        (pc[r] = "failed" /\ failedAt[r] = "reader" /\ Latest(r)) =>
            \A p \in Paths : files[p] = startFiles[r][p]

C2_Witness ==
    \E r \in Runs :
        /\ pc[r] = "failed" /\ failedAt[r] = "reader" /\ Latest(r)
        /\ files[feature_store_file_path].exists
        /\ ~files[training_file_path].exists

\* C5: the table the reader returns has one row per document read, no "_id"
\* column, the missing-value marker where the document held "na" and the
\* document's own value everywhere else.
C5_ReaderTable ==
    \A r \in Runs :
        (pc[r] \in InWriter \cup InSplitter \cup {"assemble", "completed"}) =>
            LET df == dataframe[r]
                docs == readDocs[r]
            IN  /\ Len(df.data) = Len(docs)
                /\ "_id" \notin Range(df.columns)
                /\ Len(docs) > 0 => df.columns = <<"x">>
                /\ \A i \in 1..Len(docs) :
                      /\ Len(df.data[i]) = Len(df.columns)
                      /\ docs[i].x = "na" => df.data[i][1] = NaN
                      /\ docs[i].x # "na" =>
                            (~df.data[i][1].nan /\ df.data[i][1].v = docs[i].x)

C5_Witness ==
    \E r \in Runs :
        /\ pc[r] = "writer.makedirs"
        /\ Len(readDocs[r]) = MaxDocs
        /\ \E i, j \in 1..Len(readDocs[r]) :
              readDocs[r][i].x = "na" /\ readDocs[r][j].x # "na"

\* the line of a file for a document: its feature, or the quoted empty field
\* of a missing value, and the line terminator
ExpectedLine(doc) ==
    IF doc.x = "na" THEN <<"\"", "\"", "\n">> ELSE Chars(doc.x) \o <<"\n">>

\* the lines of the documents at the positions index (0-based), in that order
ExpectedLines(docs, index) ==
    Concat([i \in 1..Len(index) |-> ExpectedLine(docs[index[i] + 1])])

\* C6: when the writer has succeeded the feature-store file holds the header
\* and every row of the table, whatever it held before; the table handed on is
\* the one the reader gave; the training and the testing file are untouched.
C6_WriterOverwritesAndPassesThrough ==
    \A r \in Runs :
        (pc[r] = "splitter.split" /\ Latest(r)) =>
            LET f == files[feature_store_file_path]
                docs == readDocs[r]
            IN  /\ f.exists
                /\ f.text = (IF Len(docs) = 0 THEN <<"\n">> ELSE <<"x", "\n">>) \o
                                ExpectedLines(docs, [i \in 1..Len(docs) |-> i - 1])
                /\ dataframe[r] = export_collection_as_dataframe(docs)
                /\ files[training_file_path] = startFiles[r][training_file_path]
                /\ files[testing_file_path] = startFiles[r][testing_file_path]

C6_Witness ==
    \E r \in Runs :
        /\ pc[r] = "splitter.split" /\ Latest(r)
        /\ startFiles[r][feature_store_file_path].exists
        /\ startFiles[r][feature_store_file_path] # files[feature_store_file_path]
        /\ Len(readDocs[r]) >= 2
        /\ startFiles[r][training_file_path].exists

Abs(i) == IF i < 0 THEN -i ELSE i

\* the splitter of run r returned
SplitterReturned(r) == pc[r] \in {"assemble", "completed"}

\* train_test_split raised in run r
SplitFailed(r) == pc[r] = "failed" /\ failedAt[r] = "splitter.split"

\* the training and the testing set of run r partition its table: disjoint,
\* together every row once
Partitioned(r) ==
    LET n == Len(dataframe[r].data)
        tr == train_set[r]
        te == test_set[r]
    IN  /\ Range(tr.index) \cap Range(te.index) = {}
        /\ Cardinality(Range(tr.index)) = Len(tr.data)
        /\ Cardinality(Range(te.index)) = Len(te.data)
        /\ Range(tr.index) \cup Range(te.index) = 0..(n - 1)
        /\ Len(tr.data) + Len(te.data) = n
        /\ \A i \in 1..Len(tr.data) : tr.data[i] = dataframe[r].data[tr.index[i] + 1]
        /\ \A i \in 1..Len(te.data) : te.data[i] = dataframe[r].data[te.index[i] + 1]

\* the counts of run r differ by less than one row from r*N and (1-r)*N
LessThanOneRowOff(r) ==
    LET n == Len(dataframe[r].data)
    IN  /\ Abs(ratio.den * Len(test_set[r].data) - ratio.num * n) < ratio.den
        /\ Abs(ratio.den * Len(train_set[r].data) - (ratio.den - ratio.num) * n) < ratio.den

\* the testing count of run r is r*N or up to one row more, the training count
\* (1-r)*N or up to one row less
AtMostOneRowOff(r) ==
    LET n == Len(dataframe[r].data)
        over == ratio.den * Len(test_set[r].data) - ratio.num * n
    IN  /\ 0 <= over /\ over <= ratio.den
        /\ (ratio.den - ratio.num) * n - ratio.den * Len(train_set[r].data) = over

\* the file at path holds the header and the rows of the set, in its order
HoldsRowsOf(path, set, docs) ==
    /\ files[path].exists
    /\ files[path].text = <<"x", "\n">> \o ExpectedLines(docs, set.index)

SplitWritten(r) ==
    /\ SplitterReturned(r)
    /\ Partitioned(r)
    /\ Latest(r) => /\ HoldsRowsOf(training_file_path, train_set[r], readDocs[r])
                    /\ HoldsRowsOf(testing_file_path, test_set[r], readDocs[r])

\* the spec's scenario: ten documents, ratio 0.2
TenRows(r) == Len(dataframe[r].data) = 10 /\ ratio = [num |-> 1, den |-> 5]

\* C3 as claimed: for every table and every ratio, a splitter that met no file
\* error has written a training and a testing file that partition the table,
\* each count less than one row from its share.
C3_Original ==
    \A r \in Runs :
        (SplitterReturned(r) \/ SplitFailed(r)) =>
            (SplitWritten(r) /\ LessThanOneRowOff(r))

\* C3 as amended: the splitter writes the partition whenever at least one row
\* is left for training, r*N <= N-1, the testing count being ceil(r*N) in
\* double arithmetic: never below r*N and at most one row above it (ten rows
\* at 0.2 give 8 and 2); otherwise (N = 0, N = 1, r*N > N-1) train_test_split
\* raises and the splitter writes neither file.
C3_SplitPartitions ==
    \A r \in Runs :
        LET n == Len(dataframe[r].data)
        IN  /\ SplitterReturned(r) =>
                  /\ ratio.num * n <= ratio.den * (n - 1)
                  /\ SplitWritten(r)
                  /\ AtMostOneRowOff(r)
                  /\ TenRows(r) => Len(train_set[r].data) = 8 /\ Len(test_set[r].data) = 2
            /\ SplitFailed(r) =>
                  /\ ratio.num * n > ratio.den * (n - 1)
                  /\ Latest(r) =>
                        /\ files[training_file_path] = startFiles[r][training_file_path]
                        /\ files[testing_file_path] = startFiles[r][testing_file_path]

\* 25 rows at 0.28: r*N is 7, the double product is above 7, 8 rows are tested
C3_Witness ==
    \E r \in Runs :
        /\ pc[r] = "completed" /\ Latest(r)
        /\ Len(dataframe[r].data) = 25
        /\ ratio = [num |-> 7, den |-> 25]
        /\ Len(train_set[r].data) = 17
        /\ Len(test_set[r].data) = 8

AfterSplit == {"splitter.makedirs", "splitter.train_open", "splitter.train_write",
               "splitter.test_open", "splitter.test_write", "assemble", "completed"}

\* C4: two executions of the splitter on the same table with the same ratio
\* give the same training and testing sets, and leave the same training and
\* testing files, whatever the files held before each of them.
C4_SplitDeterministic ==
    /\ \A r, q \in Runs :
          (pc[r] \in AfterSplit /\ pc[q] \in AfterSplit /\ dataframe[r] = dataframe[q]) =>
              (train_set[r] = train_set[q] /\ test_set[r] = test_set[q])
    /\ (pc[1] = "completed" /\ pc[2] = "completed" /\ dataframe[1] = dataframe[2]) =>
          /\ files[training_file_path] = startFiles[2][training_file_path]
          /\ files[testing_file_path] = startFiles[2][testing_file_path]

C4_Witness ==
    /\ pc[1] = "completed" /\ pc[2] = "completed"
    /\ dataframe[1] = dataframe[2]
    /\ Len(dataframe[1].data) = 3
    /\ startFiles[1][training_file_path] = Stale
    /\ startFiles[2][training_file_path] # Stale

Status(at) ==
    CASE at = "not_started" -> "NOT_STARTED"
      [] at = "completed" -> "COMPLETED"
      [] at = "failed" -> "FAILED"
      [] OTHER -> "IN_PROGRESS"

Occurrences(s, e) == Cardinality({i \in 1..Len(s) : s[i] = e})

\* C7: a run goes NOT_STARTED -> IN_PROGRESS -> COMPLETED or FAILED; a step
\* that fails ends the run FAILED with the wrapped exception raised to the
\* caller; an ended run does nothing more; no step runs twice.
C7_StateMachine ==
    [][\A r \in Runs :
          /\ \/ Status(pc'[r]) = Status(pc[r])
             \/ <<Status(pc[r]), Status(pc'[r])>> \in
                   {<<"NOT_STARTED", "IN_PROGRESS">>, <<"IN_PROGRESS", "COMPLETED">>,
                    <<"IN_PROGRESS", "FAILED">>}
          /\ pc[r] \in Terminal =>
                /\ pc'[r] = pc[r] /\ log'[r] = log[r]
                /\ dataframe'[r] = dataframe[r] /\ train_set'[r] = train_set[r]
                /\ test_set'[r] = test_set[r] /\ artifact'[r] = artifact[r]
                /\ raised'[r] = raised[r]
          /\ (log'[r] # log[r] /\ log'[r][Len(log'[r])] = "raise") =>
                /\ Status(pc'[r]) = "FAILED"
                /\ Len(raised'[r]) = 3
                /\ raised'[r][1] = "NetworkSecurityException"
                /\ raised'[r][3] \in {"PyMongoError", "OSError", "ValueError"}
          /\ Status(pc'[r]) = "FAILED" <=> raised'[r] # <<>>
          /\ Status(pc'[r]) = "COMPLETED" => artifact'[r] # NoArtifact
          /\ \A e \in Range(log'[r]) : Occurrences(log'[r], e) = 1
      ]_vars

C7_Witness ==
    /\ pc[1] = "failed" /\ failedAt[1] = "splitter.train_write"
    /\ pc[2] = "completed"

\* C8: a second run over the same documents leaves the three files as the
\* first run left them and returns the same artifact.
C8_RerunIdempotent ==
    (pc[1] = "completed" /\ pc[2] = "completed" /\ readDocs[1] = readDocs[2]) =>
        /\ \A p \in Paths : files[p] = startFiles[2][p]
        /\ artifact[1] = artifact[2]

C8_Witness ==
    /\ pc[1] = "completed" /\ pc[2] = "completed"
    /\ readDocs[1] = readDocs[2]
    /\ Len(readDocs[1]) >= 2
    /\ startFiles[1][feature_store_file_path] = Stale

ProperPrefixes(s) == {SubSeq(s, 1, n) : n \in 0..(Len(s) - 1)}

\* what the earlier steps of a failed run wrote is still there
EarlierFilesKept(r) ==
    /\ failedAt[r] \in InSplitter =>
          files[feature_store_file_path] = File(to_csv(dataframe[r]))
    /\ failedAt[r] \in {"splitter.test_open", "splitter.test_write"} =>
          files[training_file_path] = File(to_csv(train_set[r]))

\* C9 as claimed: after a failure the files written earlier in the run are
\* still there, and when the write of the testing file fails the testing file
\* keeps its previous state.
C9_Original ==
    \A r \in Runs :
        (pc[r] = "failed" /\ Latest(r)) =>
            /\ EarlierFilesKept(r)
            /\ failedAt[r] \in {"splitter.test_open", "splitter.test_write"} =>
                  files[testing_file_path] = startFiles[r][testing_file_path]

\* C9 as amended: the testing file keeps its previous state when opening it
\* failed; when the write failed after the open it was truncated and holds a
\* proper prefix of the bytes of the run's testing text.
C9_NoRollback ==
    \A r \in Runs :
        (pc[r] = "failed" /\ Latest(r)) =>
            /\ EarlierFilesKept(r)
            /\ failedAt[r] = "splitter.test_open" =>
                  files[testing_file_path] = startFiles[r][testing_file_path]
            /\ failedAt[r] = "splitter.test_write" =>
                  /\ files[testing_file_path].exists
                  /\ files[testing_file_path].text \in ProperPrefixes(to_csv(test_set[r]))

C9_Witness ==
    \E r \in Runs :
        /\ pc[r] = "failed" /\ failedAt[r] = "splitter.test_write" /\ Latest(r)
        /\ startFiles[r][testing_file_path] = Stale
        /\ files[testing_file_path] = File(<<"x", "\n", "\"">>)
        /\ files[training_file_path] = File(to_csv(train_set[r]))
        /\ files[feature_store_file_path] = File(to_csv(dataframe[r]))

\* the text run r writes to path
Content(r, path) ==
    to_csv(IF path = feature_store_file_path THEN dataframe[r]
           ELSE IF path = training_file_path THEN train_set[r]
           ELSE test_set[r])

BothCompleted == pc[1] = "completed" /\ pc[2] = "completed"

Max(a, b) == IF a >= b THEN a ELSE b

\* the file at path is as long as the longer of the two runs' texts, and each
\* of its bytes is the byte one of the runs wrote at that place, or a zero byte
MixtureOfBoth(path) ==
    LET t == files[path].text
        c1 == Content(1, path)
        c2 == Content(2, path)
    IN  /\ Len(t) = Max(Len(c1), Len(c2))
        /\ \A i \in 1..Len(t) :
              \/ i <= Len(c1) /\ t[i] = c1[i]
              \/ i <= Len(c2) /\ t[i] = c2[i]
              \/ t[i] = NUL

\* the bytes of the text that come before its last write()
RECURSIVE BeforeLastWrite(_, _)
BeforeLastWrite(text, from) ==
    LET rest == SubSeq(text, from + 1, Len(text))
        n == ChunkLen(rest)
    IN  IF n = Len(rest) THEN from ELSE BeforeLastWrite(text, from + n)

\* the bytes of the last write() of the run that wrote the file last are in
\* the file, at their place
LastWriteKept(path) ==
    LET c == Content(lastWriter[path], path)
    IN  /\ Len(files[path].text) >= Len(c)
        /\ \A i \in (BeforeLastWrite(c, 0) + 1)..Len(c) : files[path].text[i] = c[i]

=============================================================================
